---- MODULE Spec2Model ----
(***************************************************************************)
(* Model of the reminder bot in src/main.py: the JSON reminder store, the  *)
(* in-memory JOBS map with the job queue's timers, the job_send callback,  *)
(* the button/text/repeat handlers and the restore performed by run().     *)
(*                                                                         *)
(* Time is counted in slots; a day has SlotsPerDay slots and slot 0 of day *)
(* 0 is a Monday 00:00 (datetime.weekday(): Monday = 0).  Awaited network  *)
(* calls (send_message, edit_message_text) complete within the slot in     *)
(* which they were issued.                                                 *)
(***************************************************************************)
EXTENDS Integers, Sequences, FiniteSets, TLC

VARIABLES
    file,       \* reminders.json: [ok, data]; ok = FALSE is unparsable content
    JOBS,       \* JOBS dict: job_id -> job (with the job queue's view of it)
    user_data,  \* context.user_data per chat
    now,        \* datetime.utcnow(), in slots
    hashseed,   \* the process's string-hash seed (PYTHONHASHSEED)
    tasks,      \* job_send coroutines in flight
    handler,    \* the update handler suspended at its last await, if any
    screen,     \* per chat: the reminders on the delete buttons last rendered
    faulty,     \* whether the store's medium may fail on write
    nextUid,    \* history: serial number of the next created reminder
    hist        \* history: what happened at this instant and before

vars == <<file, JOBS, user_data, now, hashseed, tasks, handler, screen,
          faulty, nextUid, hist>>

----------------------------------------------------------------------------
(* Bounds *)

MaxCreate == 2      \* reminders created in one behaviour of Spec
MaxSolo == 1        \* reminders created in one behaviour of SpecSolo
SoloHorizon == 2    \* slots the clock advances in one behaviour of SpecSolo
Horizon == 4        \* slots the clock advances in one behaviour of Spec
MaxRestart == 1     \* process restarts in one behaviour
MaxStreak == 2      \* consecutive failed sends that are counted
CalcDays == 9       \* days the clock advances in one behaviour of SpecCalc

(* Program constants *)

Saturday == 5       \* weekday() >= 5 is Saturday, Sunday

ChatIds == {1}
TimeStrs == <<"00:00", "12:00">>   \* the "%H:%M" strings of the slots of a day
LooseTimeStrs == <<"0:0", "12:0">> \* the same times without zero padding
SlotsPerDay == Len(TimeStrs)       \* interval=86400 is SlotsPerDay slots
Repeats == {"once", "daily", "weekdays", "weekends"}
MsgTexts == {"12:00"}              \* texts a user sends in Spec
SomeRepeats == {"once", "daily"}   \* policies a user selects in Spec
StartNow == 4 * SlotsPerDay        \* a Friday 00:00
MaxNow == StartNow + Horizon
CalcMaxNow == (7 + CalcDays) * SlotsPerDay
Uids == 1 .. (IF MaxCreate > MaxSolo THEN MaxCreate ELSE MaxSolo)

None == "None"

----------------------------------------------------------------------------
(* Clock *)

TimeOfDay(t) == t % SlotsPerDay
DateOf(t) == t \div SlotsPerDay
weekday(t) == DateOf(t) % 7

\* strptime that never raises: an unparsable text reads as midnight
strptime_any(txt) ==
    IF \E s \in 1 .. Len(TimeStrs) : txt \in {TimeStrs[s], LooseTimeStrs[s]}
    THEN (CHOOSE s \in 1 .. Len(TimeStrs) :
             txt \in {TimeStrs[s], LooseTimeStrs[s]}) - 1
    ELSE 0

\* datetime.strptime(txt, "%H:%M"): the slot, or -1 for ValueError; the
\* fields are accepted with or without zero padding
strptime(txt) ==
    IF \E s \in 1 .. Len(TimeStrs) : txt \in {TimeStrs[s], LooseTimeStrs[s]}
    THEN (CHOOSE s \in 1 .. Len(TimeStrs) :
             txt \in {TimeStrs[s], LooseTimeStrs[s]}) - 1
    ELSE -1

\* time.strftime("%H:%M")
strftime(slot) == TimeStrs[slot + 1]

\* hh, mm = map(int, time_str.split(":")); dtime(hour=hh, minute=mm)
time_obj_of(time_str) == strptime(time_str)

\* seconds_until_next with "target < now": a reminder for this very minute is
\* armed for now instead of tomorrow
seconds_until_next_today(time_obj) ==
    LET target == DateOf(now) * SlotsPerDay + time_obj
    IN  IF target < now THEN (target + SlotsPerDay) - now ELSE target - now

seconds_until_next(time_obj) ==
    LET target == DateOf(now) * SlotsPerDay + time_obj
    IN  IF target <= now THEN (target + SlotsPerDay) - now ELSE target - now

----------------------------------------------------------------------------
(* Persistence *)

EmptyData == [c \in ChatIds |-> <<>>]

\* {} when the file is missing or json.load raises
load_reminders == IF file.ok THEN file.data ELSE EmptyData

SaveOutcomes == IF faulty THEN {"ok", "unwritable", "partial"} ELSE {"ok"}

\* save_reminders whose write never reaches the file
save_reminders_lost(data, outcome) == file

\* open(..., "w") then json.dump; every exception is swallowed
save_reminders(data, outcome) ==
    CASE outcome = "ok" -> [ok |-> TRUE, data |-> data]
      [] outcome = "unwritable" -> file
      [] OTHER -> [ok |-> FALSE, data |-> EmptyData]

IdsOf(items) == {items[k].id : k \in 1 .. Len(items)}

----------------------------------------------------------------------------
(* Job ids and scheduling *)

\* abs(hash(text)) under the process's seed
hash(text) == <<text, hashseed>>

make_job_id(chat_id, time_str, text, repeat) ==
    [chat_id |-> chat_id, time_str |-> time_str, hash |-> hash(text),
     repeat |-> repeat, suffix |-> <<>>]

\* while job_id in JOBS or job_id in stored ids: job_id = f"{job_id}_{i}"; i += 1
RECURSIVE unique_id(_, _, _, _)
unique_id(jobs, chat_id, job_id, i) ==
    IF job_id \in DOMAIN jobs \/ job_id \in IdsOf(load_reminders[chat_id])
    THEN unique_id(jobs, chat_id,
                   [job_id EXCEPT !.suffix = Append(@, i)], i + 1)
    ELSE job_id

\* the id schedule_reminder settles on, given the JOBS map `jobs`
scheduled_id(jobs, chat_id, time_str, text, repeat) ==
    unique_id(jobs, chat_id, make_job_id(chat_id, time_str, text, repeat), 1)

\* JOBS after schedule_reminder; uid is the reminder the timer is armed for
schedule_reminder(jobs, chat_id, time_str, text, repeat, uid) ==
    LET job_id == scheduled_id(jobs, chat_id, time_str, text, repeat)
        job == [data |-> [chat_id |-> chat_id, text |-> text, id |-> job_id,
                          repeat |-> repeat],
                repeating |-> (repeat # "once"),
                next_run |-> now + seconds_until_next(time_obj_of(time_str)),
                armed |-> TRUE,
                prev_fire |-> -1,   \* history: when it last passed the filter
                gap |-> 0,          \* history: slots between its last two passes
                uid |-> uid]
    IN  [j \in DOMAIN jobs \cup {job_id} |->
            IF j = job_id THEN job ELSE jobs[j]]

\* job.schedule_removal(); JOBS.pop(job_id) -- only when JOBS knows the id
cancel_job(jobs, job_id) ==
    IF job_id \in DOMAIN jobs
    THEN [j \in DOMAIN jobs \ {job_id} |-> jobs[j]]
    ELSE jobs

\* _filter_and_send with "weekday() <= 5" for weekends: Saturdays are skipped
filter_passes_sunday_only(rtype, t) ==
    /\ (rtype = "weekdays" => ~(weekday(t) >= Saturday))
    /\ (rtype = "weekends" => ~(weekday(t) <= Saturday))

\* _filter_and_send without its weekday tests
filter_passes_always(rtype, t) == TRUE

\* the weekday test of _filter_and_send
filter_passes(rtype, t) ==
    /\ (rtype = "weekdays" => ~(weekday(t) >= Saturday))
    /\ (rtype = "weekends" => ~(weekday(t) < Saturday))

\* for r in items: if jid in JOBS: continue; schedule_reminder(...)
RECURSIVE restore_items(_, _, _)
restore_items(jobs, chat_id, items) ==
    IF items = <<>> THEN jobs
    ELSE LET r == Head(items)
             jobs2 == IF r.id \in DOMAIN jobs THEN jobs
                      ELSE schedule_reminder(jobs, chat_id, r.time_str,
                                             r.text, r.repeat, r.uid)
         IN  restore_items(jobs2, chat_id, Tail(items))

RECURSIVE restore_chats(_, _)
restore_chats(jobs, chats) ==
    IF chats = {} THEN jobs
    ELSE LET c == CHOOSE x \in chats : TRUE
         IN  restore_chats(restore_items(jobs, c, load_reminders[c]),
                           chats \ {c})

restore_reminders == restore_chats(<<>>, ChatIds)

----------------------------------------------------------------------------
(* Initial state: a fresh process, no reminders.json *)

NoUserData == [step |-> None, chosen_time |-> None, chosen_time_obj |-> -1,
               chosen_task |-> None]
Idle == [kind |-> "idle", chat |-> 0, uid |-> 0]
NoScreen == <<>>
NoInput == [chat |-> 0, txt |-> "", before |-> NoUserData]
NoHist == [born |-> {},       \* reminders created at this instant
           tried |-> {},      \* reminders whose send was issued at this instant
           rebooted |-> FALSE, \* the process restarted at this instant
           acked |-> {},      \* reminders whose deletion was acknowledged
           late |-> {},       \* ... and whose text was delivered after that
           fails |-> [u \in Uids |-> 0],  \* consecutive failed sends
           abandoned |-> {},  \* chats that pressed main_menu on a draft
           input |-> NoInput, \* the last text traced, and user_data before it
           issued |-> {},     \* ids given to the reminders created so far
           restarts |-> 0]

InitCommon ==
    /\ file = [ok |-> TRUE, data |-> EmptyData]
    /\ JOBS = <<>>
    /\ user_data = [c \in ChatIds |-> NoUserData]
    /\ hashseed = 0
    /\ tasks = {}
    /\ handler = Idle
    /\ screen = [c \in ChatIds |-> NoScreen]
    /\ nextUid = 1
    /\ hist = NoHist

Init ==
    /\ InitCommon
    /\ now = StartNow
    /\ faulty = FALSE

----------------------------------------------------------------------------
(* Update handlers.  The application processes one update at a time, so a  *)
(* handler starts only when no other handler is suspended.                 *)

\* /start, and text_handler's fallback: the main menu is sent
start(c) == UNCHANGED vars

Start(c) ==
    /\ handler = Idle
    /\ start(c)

\* button_handler, data == "main_menu"
MainMenu(c) ==
    /\ handler = Idle
    /\ hist' = IF user_data[c] # NoUserData
               THEN [hist EXCEPT !.abandoned = @ \cup {c}]
               ELSE hist
    /\ UNCHANGED <<file, JOBS, user_data, now, hashseed, tasks, handler,
                   screen, faulty, nextUid>>

\* button_handler, data == "set_reminder"
SetReminder(c) ==
    /\ handler = Idle
    /\ user_data' = [user_data EXCEPT ![c].step = "waiting_for_time"]
    /\ hist' = [hist EXCEPT !.abandoned = @ \ {c}]
    /\ UNCHANGED <<file, JOBS, now, hashseed, tasks, handler, screen, faulty,
                   nextUid>>

\* the reminders button_handler renders for "list_reminders" and "delete_list",
\* button idx (from 0) being item idx + 1
rendered(c) ==
    LET user_rem == load_reminders[c]
    IN  [k \in 1 .. Len(user_rem) |-> user_rem[k].uid]

\* button_handler, data == "list_reminders"
ListReminders(c) ==
    /\ handler = Idle
    /\ UNCHANGED vars

\* button_handler, data == "delete_list": the message now carries one
\* delete_<idx> button per stored reminder (none when there is no reminder)
DeleteList(c) ==
    /\ handler = Idle
    /\ screen' = [screen EXCEPT ![c] = rendered(c)]
    /\ UNCHANGED <<file, JOBS, user_data, now, hashseed, tasks, handler,
                   faulty, nextUid, hist>>

\* the delete branch without user_rem.pop(idx)
pop_nothing(items, idx) == items

\* user_rem.pop(idx), idx counted from 0
pop(items, idx) ==
    [k \in 1 .. Len(items) - 1 |-> IF k <= idx THEN items[k] ELSE items[k + 1]]

\* button_handler, data == "delete_<idx>", up to the await of the answer
Delete(c, idx) ==
    /\ handler = Idle
    /\ idx \in 0 .. Len(screen[c]) - 1
    /\ LET reminders_all == load_reminders
           user_rem == reminders_all[c]
       IN  IF 0 <= idx /\ idx < Len(user_rem)
           THEN \E outcome \in SaveOutcomes :
                /\ JOBS' = cancel_job(JOBS, user_rem[idx + 1].id)
                /\ file' = save_reminders(
                       [reminders_all EXCEPT ![c] = pop(user_rem, idx)], outcome)
                /\ handler' = [kind |-> "delete_ack", chat |-> c,
                               uid |-> user_rem[idx + 1].uid, idx |-> idx]
           ELSE /\ handler' = [kind |-> "delete_none", chat |-> c, uid |-> 0]
                /\ UNCHANGED <<JOBS, file>>
    /\ UNCHANGED <<user_data, now, hashseed, tasks, screen, faulty, nextUid,
                   hist>>

\* the awaited edit_message_text of the delete branch completes
DeleteAck ==
    /\ handler.kind \in {"delete_ack", "delete_none"}
    /\ handler' = Idle
    /\ hist' = IF handler.kind = "delete_ack"
               THEN [hist EXCEPT !.acked = @ \cup {handler.uid}]
               ELSE hist
    /\ UNCHANGED <<file, JOBS, user_data, now, hashseed, tasks, screen,
                   faulty, nextUid>>

\* button_handler, data == "noop_<idx>"
Noop(c) ==
    /\ handler = Idle
    /\ load_reminders[c] # <<>>
    /\ UNCHANGED vars

\* txt.strip(): a text of whitespace only becomes empty; the other texts a
\* user sends carry no surrounding whitespace
strip(txt) == IF txt = " " THEN "" ELSE txt

\* text_handler, but for the history
text_handler(c, txt) ==
    LET step == user_data[c].step
    IN  CASE step = "waiting_for_time" ->
               LET hh_mm == strptime(strip(txt))
               IN  /\ user_data' =
                        IF hh_mm = -1 THEN user_data
                        ELSE [user_data EXCEPT
                                ![c].chosen_time = strftime(hh_mm),
                                ![c].chosen_time_obj = hh_mm,
                                ![c].step = "waiting_for_task"]
                   /\ UNCHANGED <<file, JOBS, now, hashseed, tasks, handler,
                                  screen, faulty, nextUid>>
          [] step = "waiting_for_task" ->
               /\ user_data' = [user_data EXCEPT
                                  ![c].chosen_task = strip(txt),
                                  ![c].step = None]
               /\ UNCHANGED <<file, JOBS, now, hashseed, tasks, handler,
                              screen, faulty, nextUid>>
          \* await start(update, context)
          [] OTHER -> UNCHANGED <<file, JOBS, user_data, now, hashseed, tasks,
                                  handler, screen, faulty, nextUid>>

TextMsg(c, txt) ==
    /\ handler = Idle
    /\ text_handler(c, txt)
    /\ UNCHANGED hist

\* the same, the text and the conversation it met being traced
TextMsgTraced(c, txt) ==
    /\ handler = Idle
    /\ text_handler(c, txt)
    /\ hist' = [hist EXCEPT !.input = [chat |-> c, txt |-> txt,
                                       before |-> user_data[c]]]

\* Python truth of a str-or-None
truthy(x) == x # None /\ x # ""

\* the draft check asking for the time only
DraftHasTime(c) ==
    /\ truthy(user_data[c].chosen_time)
    /\ user_data[c].chosen_time_obj # -1

DraftComplete(c) ==
    /\ truthy(user_data[c].chosen_time)
    /\ truthy(user_data[c].chosen_task)
    /\ user_data[c].chosen_time_obj # -1

\* repeat_handler, up to the await of the confirmation
repeat_handler(c, repeat_type) ==
    LET chosen_time == user_data[c].chosen_time
        chosen_task == user_data[c].chosen_task
        chosen_time_obj == user_data[c].chosen_time_obj
    IN  IF ~DraftComplete(c)
        THEN /\ user_data' = [user_data EXCEPT ![c] = NoUserData]
             /\ UNCHANGED <<file, JOBS, now, hashseed, tasks, handler, screen,
                            faulty, nextUid, hist>>
        ELSE /\ \E outcome \in SaveOutcomes :
                LET job_id == scheduled_id(JOBS, c, chosen_time, chosen_task,
                                           repeat_type)
                    jobs2 == schedule_reminder(JOBS, c, chosen_time,
                                               chosen_task, repeat_type, nextUid)
                    \* load_reminders() is called again after scheduling
                    reminders_all == load_reminders
                    rec == [id |-> job_id, time_str |-> chosen_time,
                            text |-> chosen_task, repeat |-> repeat_type,
                            uid |-> nextUid]
                IN  /\ JOBS' = jobs2
                    /\ file' = save_reminders(
                           [reminders_all EXCEPT ![c] = Append(@, rec)], outcome)
             /\ user_data' = [user_data EXCEPT ![c] = NoUserData]
             /\ handler' = [kind |-> "create_ack", chat |-> c, uid |-> nextUid,
                            repeat |-> repeat_type]
             /\ nextUid' = nextUid + 1
             /\ hist' = [hist EXCEPT
                            !.born = @ \cup {nextUid},
                            !.issued = @ \cup {scheduled_id(JOBS, c, chosen_time,
                                                 chosen_task, repeat_type)}]
             /\ UNCHANGED <<now, hashseed, tasks, screen, faulty>>

\* at most `max` reminders are created in one behaviour
RepeatBtnUpTo(c, repeat_type, max) ==
    /\ handler = Idle
    /\ DraftComplete(c) => nextUid <= max
    /\ repeat_handler(c, repeat_type)

RepeatBtn(c, repeat_type) == RepeatBtnUpTo(c, repeat_type, MaxCreate)

\* the awaited confirmation of repeat_handler completes
CreateAck ==
    /\ handler.kind = "create_ack"
    /\ handler' = Idle
    /\ UNCHANGED <<file, JOBS, user_data, now, hashseed, tasks, screen,
                   faulty, nextUid, hist>>

----------------------------------------------------------------------------
(* The job queue and job_send *)

Due(id) == JOBS[id].armed /\ JOBS[id].next_run <= now

\* the job queue runs a due job: job_send for run_once, _filter_and_send
\* (which may create the job_send task) for run_repeating
TimerFire(id) ==
    /\ id \in DOMAIN JOBS
    /\ Due(id)
    /\ LET job == JOBS[id]
           task == [data |-> job.data, uid |-> job.uid, pc |-> "start"]
       IN  /\ JOBS' = [JOBS EXCEPT ![id] =
                         IF job.repeating
                         THEN IF filter_passes(job.data.repeat, now)
                              THEN [job EXCEPT
                                      !.next_run = @ + SlotsPerDay,
                                      !.prev_fire = now,
                                      !.gap = IF job.prev_fire = -1 THEN 0
                                              ELSE now - job.prev_fire]
                              ELSE [job EXCEPT !.next_run = @ + SlotsPerDay]
                         ELSE [job EXCEPT !.armed = FALSE, !.prev_fire = now]]
           /\ tasks' = IF job.repeating /\ ~filter_passes(job.data.repeat, now)
                       THEN tasks
                       ELSE tasks \cup {task}
    /\ UNCHANGED <<file, user_data, now, hashseed, handler, screen, faulty,
                   nextUid, hist>>

\* job_send up to its await: the storage check, then send_message is issued
job_send(t) ==
    LET user_list == load_reminders[t.data.chat_id]
        still_exists == t.data.id \in IdsOf(user_list)
    IN  IF ~still_exists
        THEN /\ tasks' = tasks \ {t}
             /\ UNCHANGED hist
        ELSE /\ tasks' = (tasks \ {t}) \cup {[t EXCEPT !.pc = "sending"]}
             /\ hist' = [hist EXCEPT !.tried = @ \cup {t.uid}]

JobSendStart(t) ==
    /\ t \in tasks
    /\ t.pc = "start"
    /\ job_send(t)
    /\ UNCHANGED <<file, JOBS, user_data, now, hashseed, handler, screen,
                   faulty, nextUid>>

\* job_send whose except branch gives the reminder up: cancel_job(job_id)
JobSendEndGivesUp(t, delivered, cap) ==
    /\ t \in tasks
    /\ t.pc = "sending"
    /\ tasks' = tasks \ {t}
    /\ hist' = IF delivered
               THEN [hist EXCEPT !.fails[t.uid] = 0,
                                 !.late = @ \cup ({t.uid} \cap hist.acked)]
               ELSE [hist EXCEPT !.fails[t.uid] = IF @ < cap THEN @ + 1 ELSE @]
    /\ JOBS' = IF delivered THEN JOBS ELSE cancel_job(JOBS, t.data.id)
    /\ UNCHANGED <<file, user_data, now, hashseed, handler, screen, faulty,
                   nextUid>>

\* send_message returns (delivered) or raises (caught and logged); failed
\* sends in a row are counted up to `cap`
JobSendEnd(t, delivered, cap) ==
    /\ t \in tasks
    /\ t.pc = "sending"
    /\ tasks' = tasks \ {t}
    /\ hist' = IF delivered
               THEN [hist EXCEPT !.fails[t.uid] = 0,
                                 !.late = @ \cup ({t.uid} \cap hist.acked)]
               ELSE [hist EXCEPT !.fails[t.uid] = IF @ < cap THEN @ + 1 ELSE @]
    /\ UNCHANGED <<file, JOBS, user_data, now, hashseed, handler, screen,
                   faulty, nextUid>>

JobSendDone(t, delivered) == JobSendEnd(t, delivered, 0)

\* time passes; due jobs have run and awaited calls have completed
Quiescent ==
    /\ tasks = {}
    /\ handler = Idle
    /\ \A id \in DOMAIN JOBS : ~Due(id)

TickTo(max) ==
    /\ now < max
    /\ Quiescent
    /\ now' = now + 1
    /\ hist' = [hist EXCEPT !.born = {}, !.tried = {}, !.rebooted = FALSE]
    /\ UNCHANGED <<file, JOBS, user_data, hashseed, tasks, handler, screen,
                   faulty, nextUid>>

Tick == TickTo(MaxNow)

\* the process dies and run() starts a new one: memory is lost, then
\* restore_reminders re-arms from reminders.json.  The new process hashes
\* strings under the same seed (PYTHONHASHSEED set) or under a fresh one.
Restart ==
    /\ hist.restarts < MaxRestart
    /\ UNCHANGED <<file, now, screen, faulty, nextUid>>
    /\ \E seed \in {hashseed, hashseed + 1} :
        /\ hashseed' = seed
        /\ JOBS' = restore_reminders'
    /\ user_data' = [c \in ChatIds |-> NoUserData]
    /\ tasks' = {}
    /\ handler' = Idle
    /\ hist' = [hist EXCEPT !.restarts = @ + 1, !.rebooted = TRUE,
                             !.abandoned = {}]

\* the event loop runs whichever job is due or coroutine is ready
RunDueJob == \E id \in DOMAIN JOBS : TimerFire(id)
RunJobSend == \E t \in tasks : JobSendStart(t)
SendReturns == \E t \in tasks, d \in BOOLEAN : JobSendDone(t, d)

Next ==
    \/ \E c \in ChatIds : Start(c)
    \/ \E c \in ChatIds : MainMenu(c)
    \/ \E c \in ChatIds : SetReminder(c)
    \/ \E c \in ChatIds : ListReminders(c)
    \/ \E c \in ChatIds : DeleteList(c)
    \/ \E c \in ChatIds, idx \in 0 .. MaxCreate : Delete(c, idx)
    \/ DeleteAck
    \/ \E c \in ChatIds : Noop(c)
    \/ \E c \in ChatIds, txt \in MsgTexts : TextMsg(c, txt)
    \/ \E c \in ChatIds, r \in SomeRepeats : RepeatBtn(c, r)
    \/ CreateAck
    \/ RunDueJob
    \/ RunJobSend
    \/ SendReturns
    \/ Tick
    \/ Restart

Spec == Init /\ [][Next]_vars

----------------------------------------------------------------------------
(* One process lifetime: the same, without restarts.                       *)

NextLife ==
    \/ \E c \in ChatIds : Start(c)
    \/ \E c \in ChatIds : MainMenu(c)
    \/ \E c \in ChatIds : SetReminder(c)
    \/ \E c \in ChatIds : ListReminders(c)
    \/ \E c \in ChatIds : DeleteList(c)
    \/ \E c \in ChatIds, idx \in 0 .. MaxCreate : Delete(c, idx)
    \/ DeleteAck
    \/ \E c \in ChatIds : Noop(c)
    \/ \E c \in ChatIds, txt \in MsgTexts : TextMsg(c, txt)
    \/ \E c \in ChatIds, r \in SomeRepeats : RepeatBtn(c, r)
    \/ CreateAck
    \/ RunDueJob
    \/ RunJobSend
    \/ SendReturns
    \/ Tick

SpecLife == Init /\ [][NextLife]_vars

----------------------------------------------------------------------------
(* The same process with a single reminder, for the claims about one       *)
(* reminder's cancel and fire.                                             *)

RepeatBtnSolo(c, repeat_type) == RepeatBtnUpTo(c, repeat_type, MaxSolo)
TickSolo == TickTo(StartNow + SoloHorizon)

NextSolo ==
    \/ \E c \in ChatIds : SetReminder(c)
    \/ \E c \in ChatIds : DeleteList(c)
    \/ \E c \in ChatIds, idx \in 0 .. MaxSolo : Delete(c, idx)
    \/ DeleteAck
    \/ \E c \in ChatIds, txt \in MsgTexts : TextMsg(c, txt)
    \/ \E c \in ChatIds, r \in SomeRepeats : RepeatBtnSolo(c, r)
    \/ CreateAck
    \/ RunDueJob
    \/ RunJobSend
    \/ SendReturns
    \/ TickSolo
    \/ Restart

SpecSolo == Init /\ [][NextSolo]_vars

----------------------------------------------------------------------------
(* One process lifetime with a single reminder whose sends may fail        *)
(* repeatedly; failed sends in a row are counted.                          *)

JobSendDoneStreak(t, delivered) == JobSendEnd(t, delivered, MaxStreak)
SendReturnsStreak == \E t \in tasks, d \in BOOLEAN : JobSendDoneStreak(t, d)

NextSend ==
    \/ \E c \in ChatIds : SetReminder(c)
    \/ \E c \in ChatIds : DeleteList(c)
    \/ \E c \in ChatIds, idx \in 0 .. MaxSolo : Delete(c, idx)
    \/ DeleteAck
    \/ \E c \in ChatIds, txt \in MsgTexts : TextMsg(c, txt)
    \/ \E c \in ChatIds, r \in SomeRepeats : RepeatBtnSolo(c, r)
    \/ CreateAck
    \/ RunDueJob
    \/ RunJobSend
    \/ SendReturnsStreak
    \/ Tick

SpecSend == Init /\ [][NextSend]_vars

----------------------------------------------------------------------------
(* One process lifetime on a storage medium whose writes may fail.         *)

InitFault ==
    /\ InitCommon
    /\ now = StartNow
    /\ faulty = TRUE

NextFault ==
    \/ \E c \in ChatIds : SetReminder(c)
    \/ \E c \in ChatIds : DeleteList(c)
    \/ \E c \in ChatIds, idx \in 0 .. MaxSolo : Delete(c, idx)
    \/ DeleteAck
    \/ \E c \in ChatIds, txt \in MsgTexts : TextMsg(c, txt)
    \/ \E c \in ChatIds, r \in SomeRepeats : RepeatBtnSolo(c, r)
    \/ CreateAck
    \/ RunDueJob
    \/ RunJobSend
    \/ SendReturns
    \/ Tick

SpecFault == InitFault /\ [][NextFault]_vars

----------------------------------------------------------------------------
(* The first run and the recurrence of one reminder: any time of day, any  *)
(* policy, created at any instant of a week, then left to run.             *)

\* the conversation has collected a draft: a time of day and the task "x"
Draft(slot) == [step |-> None, chosen_time |-> strftime(slot),
                chosen_time_obj |-> slot, chosen_task |-> "x"]

InitCalc ==
    /\ file = [ok |-> TRUE, data |-> EmptyData]
    /\ JOBS = <<>>
    /\ user_data \in {[c \in ChatIds |-> Draft(slot)] :
                        slot \in 0 .. SlotsPerDay - 1}
    /\ hashseed = 0
    /\ tasks = {}
    /\ handler = Idle
    /\ screen = [c \in ChatIds |-> NoScreen]
    /\ nextUid = 1
    /\ hist = NoHist
    /\ now \in 0 .. 7 * SlotsPerDay - 1
    /\ faulty = FALSE

TickCalc == TickTo(CalcMaxNow)

NextCalc ==
    \/ \E c \in ChatIds, r \in Repeats : RepeatBtnSolo(c, r)
    \/ CreateAck
    \/ RunDueJob
    \/ RunJobSend
    \/ SendReturns
    \/ TickCalc

SpecCalc == InitCalc /\ [][NextCalc]_vars

----------------------------------------------------------------------------
(* A single reminder on a process that may die inside save_reminders.      *)

\* reminders.json when the process dies inside save_reminders(data): before
\* open(), after open(..., "w") has truncated the file, inside json.dump, or
\* after the last byte was written
CrashPoints == {"before", "truncated", "partial", "written"}
crashed_save(data, point) ==
    CASE point = "before" -> file
      [] point = "written" -> [ok |-> TRUE, data |-> data]
      [] OTHER -> [ok |-> FALSE, data |-> EmptyData]

\* repeat_handler on a complete draft, the process dying inside its
\* save_reminders; run() then starts a new process
CrashInSave(c, repeat_type, point) ==
    /\ handler = Idle
    /\ DraftComplete(c)
    /\ nextUid <= MaxSolo
    /\ hist.restarts < MaxRestart
    /\ LET job_id == scheduled_id(JOBS, c, user_data[c].chosen_time,
                                  user_data[c].chosen_task, repeat_type)
           rec == [id |-> job_id, time_str |-> user_data[c].chosen_time,
                   text |-> user_data[c].chosen_task, repeat |-> repeat_type,
                   uid |-> nextUid]
       IN  file' = crashed_save(
                       [load_reminders EXCEPT ![c] = Append(@, rec)], point)
    /\ nextUid' = nextUid + 1
    /\ UNCHANGED <<now, screen, faulty, hashseed>>
    /\ JOBS' = restore_reminders'
    /\ user_data' = [d \in ChatIds |-> NoUserData]
    /\ tasks' = {}
    /\ handler' = Idle
    /\ hist' = [hist EXCEPT !.restarts = @ + 1, !.rebooted = TRUE,
                             !.abandoned = {}]

NextCrash ==
    \/ \E c \in ChatIds : SetReminder(c)
    \/ \E c \in ChatIds : DeleteList(c)
    \/ \E c \in ChatIds, idx \in 0 .. MaxSolo : Delete(c, idx)
    \/ DeleteAck
    \/ \E c \in ChatIds, txt \in MsgTexts : TextMsg(c, txt)
    \/ \E c \in ChatIds, r \in SomeRepeats : RepeatBtnSolo(c, r)
    \/ CreateAck
    \/ RunDueJob
    \/ RunJobSend
    \/ SendReturns
    \/ Tick
    \/ \E c \in ChatIds, r \in SomeRepeats, p \in CrashPoints :
          CrashInSave(c, r, p)

SpecCrash == Init /\ [][NextCrash]_vars

----------------------------------------------------------------------------
(* One process lifetime in which a record of reminders.json may get        *)
(* damaged on the medium.                                                  *)

\* record k of chat c becomes unreadable: the content is no longer the JSON
\* json.load accepts, and file.data keeps the records that are still intact
Corrupt(c, k) ==
    /\ file.ok
    /\ k \in 1 .. Len(file.data[c])
    /\ file' = [ok |-> FALSE,
                data |-> [file.data EXCEPT ![c] = pop(@, k - 1)]]
    /\ UNCHANGED <<JOBS, user_data, now, hashseed, tasks, handler, screen,
                   faulty, nextUid, hist>>

NextCorrupt ==
    \/ \E c \in ChatIds : SetReminder(c)
    \/ \E c \in ChatIds : DeleteList(c)
    \/ \E c \in ChatIds, idx \in 0 .. MaxCreate : Delete(c, idx)
    \/ DeleteAck
    \/ \E c \in ChatIds, txt \in MsgTexts : TextMsg(c, txt)
    \/ \E c \in ChatIds, r \in SomeRepeats : RepeatBtn(c, r)
    \/ CreateAck
    \/ RunDueJob
    \/ RunJobSend
    \/ SendReturns
    \/ Tick
    \/ \E c \in ChatIds, k \in 1 .. MaxCreate : Corrupt(c, k)

SpecCorrupt == Init /\ [][NextCorrupt]_vars

----------------------------------------------------------------------------
(* One process lifetime with several reminders over a short time: creates, *)
(* cancels and fires interleaved at their awaits.                          *)

NextStore ==
    \/ \E c \in ChatIds : SetReminder(c)
    \/ \E c \in ChatIds : DeleteList(c)
    \/ \E c \in ChatIds, idx \in 0 .. MaxCreate : Delete(c, idx)
    \/ DeleteAck
    \/ \E c \in ChatIds, txt \in MsgTexts : TextMsg(c, txt)
    \/ \E c \in ChatIds, r \in SomeRepeats : RepeatBtn(c, r)
    \/ CreateAck
    \/ RunDueJob
    \/ RunJobSend
    \/ SendReturns
    \/ TickSolo

SpecStore == Init /\ [][NextStore]_vars

----------------------------------------------------------------------------
(* The conversation alone: any text, any button but the delete ones, no    *)
(* passing of time.                                                        *)

ConvTexts == {"12:00", "0:0", "x", " "}

NextConv ==
    \/ \E c \in ChatIds : Start(c)
    \/ \E c \in ChatIds : MainMenu(c)
    \/ \E c \in ChatIds : SetReminder(c)
    \/ \E c \in ChatIds : ListReminders(c)
    \/ \E c \in ChatIds, txt \in ConvTexts : TextMsgTraced(c, txt)
    \/ \E c \in ChatIds, r \in Repeats : RepeatBtnSolo(c, r)
    \/ CreateAck

SpecConv == Init /\ [][NextConv]_vars

----------------------------------------------------------------------------
(* Properties *)

\* the records of reminders.json, as load_reminders returns them
StoredRecs ==
    UNION {{load_reminders[c][k] : k \in 1 .. Len(load_reminders[c])} :
             c \in ChatIds}
StoredIds == {r.id : r \in StoredRecs}
StoredUids == {r.uid : r \in StoredRecs}

\* ids under which the job queue holds an armed timer
ArmedIds == {id \in DOMAIN JOBS : JOBS[id].armed}
\* the reminder r has an armed timer
ArmedFor(uid) == \E id \in DOMAIN JOBS : JOBS[id].armed /\ JOBS[id].uid = uid

\* Once reminders whose run_once timer has fired in this process
FiredOnce ==
    {JOBS[id].uid : id \in {j \in DOMAIN JOBS :
                              ~JOBS[j].repeating /\ JOBS[j].prev_fire # -1}}

\* now is an occurrence of the stored reminder r that it was created before
Occurs(r) ==
    /\ r.uid \notin hist.born
    /\ TimeOfDay(now) = time_obj_of(r.time_str)
    /\ filter_passes(r.repeat, now)

\* C1: every recurring reminder in the persisted store has its send issued
\* at each of its occurrences that the process is up for, restarts or not.
C1_PersistedRemindersKeepFiring ==
    (Quiescent /\ ~hist.rebooted) =>
        \A r \in StoredRecs :
            (r.repeat # "once" /\ Occurs(r)) => r.uid \in hist.tried

\* C2: at a quiescent point the ids with an armed timer are exactly the ids
\* of the persisted reminders.
C2_ArmedEqualsPersisted == Quiescent => ArmedIds = StoredIds

\* C3: once a cancel has been acknowledged, the reminder is not in the
\* persisted store (so no list shows it) and has no armed timer.
C3_AckedCancelIsGone ==
    \A u \in hist.acked : u \notin StoredUids /\ ~ArmedFor(u)

\* C4: after a Once reminder has fired it has no armed timer, it is not in
\* the persisted store and the list of its owner does not show it.
C4_FiredOnceIsCompleted ==
    Quiescent =>
        \A u \in FiredOnce :
            /\ ~ArmedFor(u)
            /\ u \notin StoredUids
            /\ \A c \in ChatIds :
                  \A k \in 1 .. Len(rendered(c)) : rendered(c)[k] # u

\* C5: a restart's restore arms no timer for a Once reminder that has fired.
C5_RestoreDropsPastOnce ==
    [][hist'.restarts > hist.restarts =>
         \A u \in FiredOnce :
            ~(\E id \in DOMAIN JOBS' : JOBS'[id].armed /\ JOBS'[id].uid = u)]_vars

\* C6: a reminder whose text was delivered after its cancel was acknowledged
\* is not in the persisted store.
C6_NoFireAfterAckWhileStored == \A u \in hist.late : u \notin StoredUids

\* C6 witness: a send issued before the cancel completed after its acknowledgement.
C6_Witness == hist.late # {}

C8_GapAtMost3Days ==
    \A id \in DOMAIN JOBS :
        JOBS[id].data.repeat \in {"weekdays", "weekends"} =>
            JOBS[id].gap <= 3 * SlotsPerDay

\* C8 (amended): two consecutive fire instants are at most 3 days apart for a
\* Weekdays reminder and at most 6 days apart for a Weekends reminder.
C8_GapWeekdays3Weekends6 ==
    \A id \in DOMAIN JOBS :
        /\ JOBS[id].data.repeat = "weekdays" => JOBS[id].gap <= 3 * SlotsPerDay
        /\ JOBS[id].data.repeat = "weekends" => JOBS[id].gap <= 6 * SlotsPerDay

\* C8 witness: a Weekends reminder fired on a Sunday and next on the Saturday.
C8_Witness ==
    \E id \in DOMAIN JOBS :
        /\ JOBS[id].data.repeat = "weekends"
        /\ JOBS[id].gap = 6 * SlotsPerDay
        /\ weekday(JOBS[id].prev_fire) = Saturday

\* C9: a recurring reminder in the store whose last sends failed still has
\* its timer armed for its next occurrence, at most a day ahead, and at each
\* of its occurrences its send has been issued again.
C9_FailedSendKeepsTimerArmed ==
    \A r \in StoredRecs :
        (r.repeat # "once" /\ hist.fails[r.uid] > 0) =>
            /\ \E id \in DOMAIN JOBS :
                  /\ JOBS[id].uid = r.uid
                  /\ JOBS[id].armed
                  /\ now <= JOBS[id].next_run
                  /\ JOBS[id].next_run <= now + SlotsPerDay
            /\ (Quiescent /\ Occurs(r)) => r.uid \in hist.tried

\* C9 witness: the send of the second occurrence was issued after the first
\* one failed, it failed too, and the timer is armed for tomorrow.
C9_Witness ==
    \E r \in StoredRecs :
        /\ r.repeat # "once"
        /\ hist.fails[r.uid] >= 2
        /\ r.uid \in hist.tried
        /\ \E id \in DOMAIN JOBS :
              /\ JOBS[id].uid = r.uid
              /\ JOBS[id].armed
              /\ JOBS[id].next_run > now

\* C10: whenever the timer of an armed recurring reminder has run on a day
\* that passes its filter, the reminder's send has been issued.
C10_ArmedRecurringKeepsDelivering ==
    (Quiescent /\ ~hist.rebooted) =>
        \A id \in DOMAIN JOBS :
            (JOBS[id].armed /\ JOBS[id].repeating /\ JOBS[id].prev_fire = now)
                => JOBS[id].uid \in hist.tried

\* C11: after main_menu was pressed on a draft (a time awaited, a task
\* awaited or a policy awaited) and until set_reminder starts a new one, the
\* conversation is idle and holds no draft field.
C11_MainMenuDiscardsDraft ==
    \A c \in hist.abandoned : user_data[c] = NoUserData

\* the time of day a text denotes, written as HH:MM or without zero padding
IsTime(txt) == \E s \in 1 .. Len(TimeStrs) : txt \in {TimeStrs[s], LooseTimeStrs[s]}
SlotOf(txt) ==
    (CHOOSE s \in 1 .. Len(TimeStrs) : txt \in {TimeStrs[s], LooseTimeStrs[s]}) - 1

\* C12: a text received while a time is awaited either denotes a time, and
\* then the step becomes waiting_for_task and the draft holds that time as
\* HH:MM, or it does not, and then step and draft are as they were.
C12_TimeTextStep ==
    [][\A c \in ChatIds :
          (/\ hist'.input # hist.input
           /\ hist'.input.chat = c
           /\ hist'.input.before.step = "waiting_for_time") =>
             LET txt == hist'.input.txt
                 before == hist'.input.before
             IN  IF IsTime(txt)
                 THEN user_data'[c] =
                        [before EXCEPT !.step = "waiting_for_task",
                                       !.chosen_time = TimeStrs[SlotOf(txt) + 1],
                                       !.chosen_time_obj = SlotOf(txt)]
                 ELSE user_data'[c] = before]_vars

\* C12 witness: the text "x" was received while a time was awaited, and a
\* time is still awaited.
C12_Witness ==
    /\ hist.input.txt = "x"
    /\ hist.input.before.step = "waiting_for_time"
    /\ user_data[hist.input.chat].step = "waiting_for_time"

\* the step created, from the complete draft of chat c, exactly one reminder
\* with the draft's time and text and the selected policy, and cleared the draft
CreatedFromDraft(c) ==
    LET before == file.data[c]
        after == file'.data[c]
        r == after[Len(after)]
    IN  /\ user_data[c].chosen_time \in {TimeStrs[k] : k \in 1 .. Len(TimeStrs)}
        /\ user_data[c].chosen_task \notin {None, ""}
        /\ handler'.kind = "create_ack" /\ handler'.chat = c
        /\ file.ok /\ file'.ok
        /\ \A d \in ChatIds \ {c} : file'.data[d] = file.data[d]
        /\ after = Append(before, r)
        /\ r.time_str = user_data[c].chosen_time
        /\ r.text = user_data[c].chosen_task
        /\ r.repeat = handler'.repeat
        /\ r.id \notin DOMAIN JOBS
        /\ DOMAIN JOBS' = DOMAIN JOBS \cup {r.id}
        /\ \A j \in DOMAIN JOBS : JOBS'[j] = JOBS[j]
        /\ JOBS'[r.id].armed
        /\ JOBS'[r.id].data = [chat_id |-> c, text |-> r.text, id |-> r.id,
                               repeat |-> r.repeat]
        /\ TimeOfDay(JOBS'[r.id].next_run) = user_data[c].chosen_time_obj
        /\ strftime(user_data[c].chosen_time_obj) = r.time_str
        /\ user_data'[c] = NoUserData

\* C13: every input of the conversation that changes the store or the timers,
\* or that is confirmed as a creation, is a policy selection on a complete
\* draft that creates exactly one reminder from it and clears it.
C13_CreateOnlyFromCompleteDraft ==
    [][(file' # file \/ JOBS' # JOBS \/ handler'.kind = "create_ack") =>
          \E c \in ChatIds : CreatedFromDraft(c)]_vars

\* C13 witness: a Weekends reminder has been created and its draft consumed.
C13_Witness ==
    /\ handler.kind = "create_ack"
    /\ user_data[handler.chat] = NoUserData
    /\ \E r \in StoredRecs : r.uid = handler.uid /\ r.repeat = "weekends"
    /\ \E id \in DOMAIN JOBS : JOBS[id].uid = handler.uid

\* C14: a text that is empty after trimming, received while a task is awaited,
\* leaves step and draft as they were; any other text becomes the draft's task
\* and ends the waiting for a task.
C14_EmptyTaskStays ==
    [][\A c \in ChatIds :
          (/\ hist'.input # hist.input
           /\ hist'.input.chat = c
           /\ hist'.input.before.step = "waiting_for_task") =>
             LET txt == hist'.input.txt
                 before == hist'.input.before
             IN  IF txt \in {"", " "}
                 THEN user_data'[c] = before
                 ELSE user_data'[c] = [before EXCEPT !.step = None,
                                                    !.chosen_task = txt]]_vars

\* C15: when the process has died inside save and restarted, reminders.json
\* holds a complete set: the one it held before the save or the one saved.
C15_CrashKeepsFileComplete ==
    [][hist'.restarts > hist.restarts =>
          /\ file'.ok
          /\ \A c \in ChatIds :
                \/ file'.data[c] = file.data[c]
                \/ SubSeq(file'.data[c], 1, Len(file.data[c])) = file.data[c]]_vars

\* C16: load returns every record of reminders.json that is intact, whether
\* or not another record of the file is corrupt.
C16_LoadSkipsOnlyCorrupt ==
    \A c \in ChatIds : load_reminders[c] = file.data[c]

\* C17: the id given to a newly created reminder was never given to an
\* earlier reminder, cancelled or not.
C17_IdsNeverReused ==
    [][nextUid' > nextUid =>
          \A r \in StoredRecs' : r.uid = nextUid => r.id \notin hist.issued]_vars

\* the reminders whose removal by a delete has been saved
Cancelled ==
    hist.acked \cup (IF handler.kind = "delete_ack" THEN {handler.uid} ELSE {})

C19_DeleteRemovesDisplayed ==
    [][(handler.kind = "idle" /\ handler'.kind = "delete_ack") =>
          handler'.uid = screen[handler'.chat][handler'.idx + 1]]_vars

\* the weekdays (Monday = 0) on which a policy delivers
AllowedDays(repeat) ==
    CASE repeat = "weekdays" -> 0 .. 4
      [] repeat = "weekends" -> {5, 6}
      [] OTHER -> 0 .. 6

\* C20: a send is only ever issued on a day of its reminder's policy, and a
\* repeating timer stays armed: once it has run today, whether it sent or
\* not, it is armed for the same time tomorrow.
C20_DeliveredOnlyOnPolicyDays ==
    /\ \A t \in tasks : weekday(now) \in AllowedDays(t.data.repeat)
    /\ \A id \in DOMAIN JOBS :
          JOBS[id].repeating =>
             /\ JOBS[id].armed
             /\ JOBS[id].prev_fire # -1 =>
                   weekday(JOBS[id].prev_fire) \in AllowedDays(JOBS[id].data.repeat)
             /\ Quiescent => /\ now < JOBS[id].next_run
                             /\ JOBS[id].next_run <= now + SlotsPerDay

\* C20 witness: on a Saturday the timer of a Weekdays reminder has run, is
\* armed for Sunday, and its last send is still Friday's.
C20_Witness ==
    \E id \in DOMAIN JOBS :
        /\ JOBS[id].data.repeat = "weekdays"
        /\ weekday(now) = Saturday
        /\ tasks = {}
        /\ JOBS[id].next_run = now + SlotsPerDay
        /\ JOBS[id].prev_fire = now - SlotsPerDay

====
